---- MODULE Spec2Model ----
(***************************************************************************)
(* Model of pupy/packages/linux/all/ptyshell.py: one PtyShell session.     *)
(*   - spawn() with the pre-exec hook prepare() run in the forked child,   *)
(*   - write(), set_pty_size(), close() on the caller thread,              *)
(*   - _read_loop() on the relay thread started by start_read_loop(),      *)
(*   - interact() on the caller thread,                                    *)
(*   - the environment: the child process and the pty pair.                *)
(* Python's None is the string "None"; an unbound local is Unbound (an     *)
(* integer local) or NoUser (a passwd entry).                              *)
(***************************************************************************)
EXTENDS Integers, Sequences, FiniteSets, TLC

\* Bytes the child writes to its terminal during one run.
MaxOut == 2
\* Calls of write() that put their bytes into the master during one run.
MaxWrites == 2
\* Calls of close() by the caller during one run.
MaxCloses == 2
\* Keys typed on the local terminal during one interact().
MaxKeys == 1
\* Bytes the child writes in bursts during one run: two bursts of more than
\* one read of the relay.
MaxStream == 16386

VARIABLES
    pc,          \* position of the caller thread
    raised,      \* the exception the caller's last operation ended with, or "None"
    environ,     \* os.environ of the process: a mapping from names to values
    argv,        \* spawn's parameter argv, as the caller passed it
    args,        \* the argument vector spawn gives to Popen, <<>> before that
    env,         \* spawn's env, the environment mapping built for the child
    prog,        \* self.prog: "None" or "Popen"
    returncode,  \* self.prog.returncode: "None" or "set"
    master,      \* self.master: "None", "open" or "closed"
    slave,       \* the parent's slave descriptor: "None", "open" or "closed"
    child,       \* the child process: "None", "forked", "running", "zombie", "reaped"
    suid,        \* prepare's suid (spawn's suid argument, rebound by the lookup)
    sgid,        \* prepare's local sgid: a gid or Unbound
    userinfo,    \* prepare's local userinfo: a passwd entry or NoUser
    cred,        \* the child's real/effective/saved uid and gid
    proc,        \* the child's tty owner, groups, cwd, session and controlling tty
    trace,       \* the system calls the child made in prepare, with their outcome
    mbuf,        \* the bytes the child wrote that the master has not read yet
    produced,    \* how many bytes the child wrote so far
    hup,         \* every slave end is closed: a read of the master fails
    exc,         \* an exceptional condition is pending on the master
    sent,        \* how many write() calls put their bytes into the master
    winsize,     \* the terminal's window size
    sigs,        \* how many termination signals were sent to the child's pid
    ncloses,     \* close() calls completed
    rpc,         \* position of the relay thread
    not_eof,     \* _read_loop's local not_eof
    sel,         \* _read_loop's locals r and x, as select returned them
    delivered,   \* the chunks passed to the delivery callback, in order
    closed_cb,   \* how many times the close callback was invoked
    inter,       \* interact(): "no" (not called), "running" or "done"
    termattr,    \* the attributes of the local terminal (stdin)
    old_settings,\* interact's local old_settings, "unset" before tcgetattr
    i_not_eof,   \* interact's local not_eof
    i_r,         \* interact's locals r (is master, is stdin in it) and x (not empty)
    pend,        \* the exception interact's finally blocks will re-raise
    stdin,       \* the local stdin: "empty", "byte" (a key is pending), "eof" or
                 \* "error" (a read of it fails)
    keys,        \* keys typed on the local terminal so far
    screen       \* what interact wrote to the local stdout, in order

\* The child as prepare() leaves it.
prepVars == <<suid, sgid, userinfo, cred, proc, trace>>

\* The session's handles and the two ends of the pty pair.
\* The process environment and what spawn() derives from it.
envVars == <<environ, argv, args, env>>

sessVars == <<envVars, prog, returncode, master, slave, child>>

spawnVars == <<sessVars, prepVars>>

\* The pty's streams and what the caller did to them.
ioVars == <<mbuf, produced, hup, exc, sent, winsize, sigs, ncloses>>

relayVars == <<rpc, not_eof, sel, delivered, closed_cb>>

\* interact()'s locals and the local terminal.
interVars == <<inter, termattr, old_settings, i_not_eof, i_r, pend, stdin,
               keys, screen>>

restVars == <<ioVars, relayVars, interVars>>

vars == <<pc, raised, spawnVars, restVars>>

(***************************************************************************)
(* The password database and the identities spawn() can be given.          *)
(***************************************************************************)
Passwd ==
    { [pw_name |-> "alice", pw_uid |-> 1, pw_gid |-> 2, pw_dir |-> "/home/alice"],
      [pw_name |-> "bob",   pw_uid |-> 3, pw_gid |-> 3, pw_dir |-> "/home/bob"] }

\* A local variable of prepare that no assignment has bound yet.
Unbound == 0 - 1

NoUser == [pw_name |-> "", pw_uid |-> Unbound, pw_gid |-> Unbound, pw_dir |-> ""]

\* An identity is None, an int or a name; the unused field is blank.
NoIdentity == [kind |-> "None", id |-> Unbound, name |-> ""]

IntIdentity(n) == [kind |-> "int", id |-> n, name |-> ""]

NameIdentity(s) == [kind |-> "str", id |-> Unbound, name |-> s]

Identities ==
    {NoIdentity} \cup {IntIdentity(n) : n \in {1, 3, 7}}
                 \cup {NameIdentity(s) : s \in {"alice", "bob", "carol"}}

\* pwd.getpwnam / pwd.getpwuid: the entries found (none: KeyError).
getpwnam(s) == {e \in Passwd : e.pw_name = s}

getpwuid(n) == {e \in Passwd : e.pw_uid = n}

\* The identity of the process that calls spawn(): root.
ParentCred == [ruid |-> 0, euid |-> 0, suid |-> 0, rgid |-> 0, egid |-> 0, sgid |-> 0]

ParentProc == [ttyowner |-> 0, groups |-> "parent", cwd |-> "parent",
               session |-> "parent", ctty |-> "parent"]

\* os.setresgid(rgid, egid, sgid) and os.setresuid(ruid, euid, suid).
setresgid(c, r, e, s) == [c EXCEPT !.rgid = r, !.egid = e, !.sgid = s]

setresuid(c, r, e, s) == [c EXCEPT !.ruid = r, !.euid = e, !.suid = s]

Call(name, ok) == [call |-> name, ok |-> ok]

(***************************************************************************)
(* Paths, the file system and the process environment.  A path is the list *)
(* of its '/'-separated components: /usr/bin/bash is <<"", "usr", "bin",   *)
(* "bash">> and the relative name bash is <<"bash">>; every other argument *)
(* of a command line is kept the same way.                                 *)
(***************************************************************************)
Bin == <<"", "bin">>

UsrBin == <<"", "usr", "bin">>

Opt == <<"", "opt">>

Srv == <<"", "srv">>

\* os.path.join(path.strip(), shell), for a directory without a trailing '/'.
Join(dir, name) == Append(dir, name)

\* argv[0].split('/')[-1]
Basename(p) == p[Len(p)]

\* The regular files (os.path.isfile); /opt/bash is a directory.
Files ==
    { Join(Bin, "sh"), Join(UsrBin, "bash"), Join(UsrBin, "sh"),
      Join(Opt, "sh"), Join(Opt, "zsh"), Join(Join(Opt, "bash"), "sh") }

\* The names spawn() looks for, in its order.
ShellNames == <<"bash", "sh", "ksh", "zsh", "csh", "ash">>

\* The directories spawn() puts in front of the child's PATH.
StdPath ==
    << Bin, <<"", "sbin">>, UsrBin, <<"", "usr", "sbin">>,
       <<"", "usr", "local", "bin">>, <<"", "usr", "local", "sbin">> >>

\* d[k] = v on a mapping d (a Python dict).
Put(d, k, v) == [n \in DOMAIN d \cup {k} |-> IF n = k THEN v ELSE d[n]]

\* The process environments spawn() is called in.  PATH is kept as the list
\* os.environ['PATH'].split(':') yields.
Environs ==
    LET shells == {<<>>} \cup {<<"SHELL", v>> : v \in {Join(Opt, "zsh"), Join(UsrBin, "bash")}}
        paths  == {<<>>} \cup {<<"PATH", v>> : v \in {<<UsrBin>>, <<Opt, UsrBin>>, <<Opt>>, <<Srv>>}}
        terms  == {<<>>} \cup {<<"TERM", "vt100">>}
        With(d, kv) == IF kv = <<>> THEN d ELSE Put(d, kv[1], kv[2])
    IN  {With(With(With([LANG |-> "C"], s), p), t) :
            s \in shells, p \in paths, t \in terms}

\* The environments of the runs that look at the session after spawn().
BaseEnvirons == {[LANG |-> "C"], [LANG |-> "C", PATH |-> <<UsrBin>>]}

\* spawn's parameter argv: None, or a list.
NoArgv == [given |-> FALSE, list |-> <<>>]

ListArgv(l) == [given |-> TRUE, list |-> l]

Argvs ==
    { NoArgv, ListArgv(<<>>),
      ListArgv(<<Join(UsrBin, "bash")>>),
      ListArgv(<<Join(UsrBin, "bash"), <<"-c">>, <<"id">>>>),
      ListArgv(<<<<"bash">>, <<"-i">>>>),
      ListArgv(<<Join(Opt, "sh"), <<"-i">>>>),
      ListArgv(<<Join(Join(Opt, "bash"), "sh")>>),
      ListArgv(<<Join(Srv, "ksh")>>) }

\* spawn's parameter term: None, or a terminal name.
Terms == {"None", "xterm"}

\* for path in os.environ['PATH'].split(':'): the first entry from the j-th
\* on that holds a file named shell, as the list [fullpath], or [] for none.
RECURSIVE InPath(_, _, _)
InPath(shell, dirs, j) ==
    IF j > Len(dirs)
       THEN <<>>
       ELSE IF Join(dirs[j], shell) \in Files
               THEN <<Join(dirs[j], shell)>>
               ELSE InPath(shell, dirs, j + 1)

\* for shell in [ "bash", ... ]: the first name from the i-th on found in
\* the path.
RECURSIVE SearchShells(_, _)
SearchShells(dirs, i) ==
    IF i > Len(ShellNames)
       THEN <<>>
       ELSE IF InPath(ShellNames[i], dirs, 1) # <<>>
               THEN InPath(ShellNames[i], dirs, 1)
               ELSE SearchShells(dirs, i + 1)

\* Lines 80-94: argv after the first if; None and [] are both <<>>.
ChooseArgv(a, e) ==
    IF a.given
       THEN a.list
       ELSE IF "SHELL" \in DOMAIN e
               THEN <<e.SHELL>>
               ELSE IF "PATH" \in DOMAIN e
                       THEN SearchShells(e.PATH, 1)
                       ELSE <<>>

\* Lines 96-101 with the flags given to every path that has a component
\* named bash.
ShellArgvAnyBash(l) ==
    IF l # <<>>
       THEN IF \E k \in 1..Len(l[1]) : l[1][k] = "bash"
               THEN <<l[1], <<"--noprofile">>, <<"--norc">>>> \o Tail(l)
               ELSE l
       ELSE <<Join(Bin, "sh")>>

\* Lines 96-101: bash gets --noprofile --norc, no argv gets /bin/sh.
ShellArgv(l) ==
    IF l # <<>>
       THEN IF Basename(l[1]) = "bash"
               THEN <<l[1], <<"--noprofile">>, <<"--norc">>>> \o Tail(l)
               ELSE l
       ELSE <<Join(Bin, "sh")>>

\* execve finds the program: an existing file, or a relative name that
\* execvp looks up in the child's PATH.
Executable(p) == p \in Files \/ p[1] # ""

\* The state after PtyShell() was constructed, the local terminal being in
\* one of the given modes and the process environment one of envs.
InitWith(modes, envs) ==
    /\ pc = "idle"
    /\ raised = "None"
    /\ environ \in envs
    /\ argv = NoArgv
    /\ args = <<>>
    /\ env = <<>>
    /\ prog = "None"
    /\ returncode = "None"
    /\ master = "None"
    /\ slave = "None"
    /\ child = "None"
    /\ suid = NoIdentity
    /\ sgid = Unbound
    /\ userinfo = NoUser
    /\ cred = ParentCred
    /\ proc = ParentProc
    /\ trace = <<>>
    /\ mbuf = <<>>
    /\ produced = 0
    /\ hup = FALSE
    /\ exc = FALSE
    /\ sent = 0
    /\ winsize = <<0, 0, 0, 0>>
    /\ sigs = 0
    /\ ncloses = 0
    /\ rpc = "idle"
    /\ not_eof = TRUE
    /\ sel = [r |-> FALSE, x |-> FALSE]
    /\ delivered = <<>>
    /\ closed_cb = 0
    /\ inter = "no"
    /\ termattr \in modes
    /\ old_settings = "unset"
    /\ i_not_eof = TRUE
    /\ i_r = [master |-> FALSE, stdin |-> FALSE, x |-> FALSE]
    /\ pend = "None"
    /\ stdin = "empty"
    /\ keys = 0
    /\ screen = <<>>

Init == InitWith({"cooked"}, BaseEnvirons)

\* interact() is the one operation that touches the local terminal.
InitInteract == InitWith({"cooked", "cbreak"}, BaseEnvirons)

\* spawn() in every process environment.
InitArgv == InitWith({"cooked"}, Environs)

(***************************************************************************)
(* spawn(argv, term, suid)                                                 *)
(***************************************************************************)
\* An exception leaves spawn(): the lines after the raising one do not run.
SpawnRaise ==
    /\ pc' = "idle"
    /\ raised' = "spawn"

\* spawn(a, t, id) is entered: argv is chosen, os.environ['TERM'] = term when
\* a term is given, and pty.openpty() and os.fdopen() allocate the pair.
SpawnOpenPty(a, t, id) ==
    /\ pc = "idle"
    /\ prog = "None"
    /\ master = "None"
    /\ slave = "None"
    /\ pc' = "sp_env"
    /\ argv' = a
    /\ args' = ShellArgv(ChooseArgv(a, environ))
    /\ environ' = IF t = "None" THEN environ ELSE Put(environ, "TERM", t)
    /\ master' = "open"
    /\ slave' = "open"
    /\ suid' = id
    /\ raised' = "None"
    /\ UNCHANGED <<env, prog, returncode, child, sgid, userinfo,
                   cred, proc, trace, restVars>>

\* The entry of the password database spawn() finds for suid, if any.
SpawnInfo ==
    IF suid.kind = "int" THEN getpwuid(suid.id)
    ELSE IF suid.kind = "str" THEN getpwnam(suid.name)
    ELSE {}

\* env = os.environ.copy(); env['HISTFILE'] = '/dev/null'; env['PATH'] = ...
\* + env['PATH']: KeyError when PATH is not set.  int(suid) turns a numeric
\* identity into an int; USER, HOME and LOGNAME are set when suid is found.
SpawnEnv ==
    /\ pc = "sp_env"
    /\ IF "PATH" \notin DOMAIN environ
          THEN SpawnRaise /\ UNCHANGED env
          ELSE /\ pc' = "sp_popen"
               /\ UNCHANGED raised
               /\ LET e == Put(Put(environ, "HISTFILE", "/dev/null"),
                               "PATH", StdPath \o environ.PATH)
                  IN  IF SpawnInfo = {}
                         THEN env' = e
                         ELSE \E info \in SpawnInfo :
                                 env' = Put(Put(Put(e, "USER", info.pw_name),
                                                "HOME", info.pw_dir),
                                            "LOGNAME", info.pw_name)
    /\ UNCHANGED <<environ, argv, args, prog, returncode, master, slave, child,
                   prepVars, restVars>>

\* subprocess.Popen forks; the child runs preexec_fn before the exec.
SpawnFork ==
    /\ pc = "sp_popen"
    /\ \E ok \in BOOLEAN :
          IF ok
             THEN /\ pc' = "pr_resolve"
                  /\ child' = "forked"
                  /\ UNCHANGED raised
             ELSE /\ SpawnRaise
                  /\ UNCHANGED child
    /\ UNCHANGED <<envVars, prog, returncode, master, slave, prepVars, restVars>>

\* An exception leaves prepare(): the child reports it and exits, Popen
\* reaps it and raises the exception in the parent.
PrepareRaise ==
    /\ SpawnRaise
    /\ child' = "None"

\* prepare: the lookup of the target identity.
PrepareResolve ==
    /\ pc = "pr_resolve"
    /\ IF suid.kind = "None"
          THEN /\ pc' = "pr_setsid"
               /\ UNCHANGED <<suid, sgid, userinfo>>
          ELSE /\ pc' = "pr_chown"
               /\ LET found == IF suid.kind = "str" THEN getpwnam(suid.name)
                                                   ELSE getpwuid(suid.id)
                  IN  IF found = {}
                         THEN UNCHANGED <<suid, sgid, userinfo>>
                         ELSE \E e \in found :
                                 /\ userinfo' = e
                                 /\ suid' = IntIdentity(e.pw_uid)
                                 /\ sgid' = e.pw_gid
    /\ UNCHANGED <<raised, sessVars, cred, proc, trace, restVars>>

\* prepare: os.getttyname(slave) does not exist in the os module, so the
\* attribute lookup raises before os.chown is reached; the error is swallowed.
PrepareChown ==
    /\ pc = "pr_chown"
    /\ pc' = "pr_groups"
    /\ UNCHANGED <<raised, spawnVars, restVars>>

\* prepare: os.initgroups(userinfo.pw_name, sgid); os.chdir(userinfo.pw_dir).
PrepareGroups ==
    /\ pc = "pr_groups"
    /\ pc' = "pr_setres"
    /\ IF userinfo = NoUser
          THEN UNCHANGED <<proc, trace>>
          ELSE \E okg \in BOOLEAN, okd \in BOOLEAN :
                  IF okg
                     THEN /\ proc' = [proc EXCEPT
                                        !.groups = userinfo.pw_name,
                                        !.cwd = IF okd THEN userinfo.pw_dir ELSE @]
                          /\ trace' = trace \o <<Call("initgroups", TRUE),
                                                 Call("chdir", okd)>>
                     ELSE /\ okd
                          /\ trace' = Append(trace, Call("initgroups", FALSE))
                          /\ UNCHANGED proc
    /\ UNCHANGED <<raised, sessVars, suid, sgid, userinfo, cred, restVars>>

\* prepare: os.setresgid(suid, suid, sgid); os.setresuid(suid, suid, sgid).
PrepareSetres ==
    /\ pc = "pr_setres"
    /\ pc' = "pr_setsid"
    /\ IF sgid = Unbound
          THEN UNCHANGED <<cred, trace>>
          ELSE \E okg \in BOOLEAN, oku \in BOOLEAN :
                  IF okg
                     THEN /\ cred' =
                               LET c == setresgid(cred, suid.id, suid.id, sgid)
                               IN  IF oku THEN setresuid(c, suid.id, suid.id, sgid)
                                          ELSE c
                          /\ trace' = trace \o <<Call("setresgid", TRUE),
                                                 Call("setresuid", oku)>>
                     ELSE /\ oku
                          /\ trace' = Append(trace, Call("setresgid", FALSE))
                          /\ UNCHANGED cred
    /\ UNCHANGED <<raised, sessVars, suid, sgid, userinfo, proc, restVars>>

\* prepare: os.setsid(), outside every try block.
PrepareSetsid ==
    /\ pc = "pr_setsid"
    /\ \E ok \in BOOLEAN :
          /\ trace' = Append(trace, Call("setsid", ok))
          /\ IF ok
                THEN /\ pc' = "pr_ctty"
                     /\ proc' = [proc EXCEPT !.session = "own", !.ctty = "None"]
                     /\ UNCHANGED <<raised, child>>
                ELSE /\ PrepareRaise
                     /\ UNCHANGED proc
    /\ UNCHANGED <<envVars, prog, returncode, master, slave, suid, sgid,
                   userinfo, cred, restVars>>

\* prepare: fcntl.ioctl(sys.stdin, termios.TIOCSCTTY, 0), outside every try.
PrepareCtty ==
    /\ pc = "pr_ctty"
    /\ \E ok \in BOOLEAN :
          /\ trace' = Append(trace, Call("TIOCSCTTY", ok))
          /\ IF ok
                THEN /\ pc' = "pr_exec"
                     /\ proc' = [proc EXCEPT !.ctty = "slave"]
                     /\ UNCHANGED <<raised, child>>
                ELSE /\ PrepareRaise
                     /\ UNCHANGED proc
    /\ UNCHANGED <<envVars, prog, returncode, master, slave, suid, sgid,
                   userinfo, cred, restVars>>

\* The child executes args[0] with env (or the exec fails and Popen raises).
SpawnExec ==
    /\ pc = "pr_exec"
    /\ \E ok \in BOOLEAN :
          IF ok /\ Executable(args[1])
             THEN /\ pc' = "sp_close"
                  /\ child' = "running"
                  /\ prog' = "Popen"
                  /\ UNCHANGED raised
             ELSE /\ PrepareRaise
                  /\ UNCHANGED prog
    /\ UNCHANGED <<envVars, returncode, master, slave, prepVars, restVars>>

\* os.close(slave), the line after Popen returned.
SpawnCloseSlave ==
    /\ pc = "sp_close"
    /\ pc' = "idle"
    /\ slave' = "closed"
    /\ UNCHANGED <<raised, envVars, prog, returncode, master, child, prepVars,
                   restVars>>

(***************************************************************************)
(* The environment: the child process and the pty pair.                    *)
(***************************************************************************)
\* The child writes one more byte to its terminal.
ChildOutput ==
    /\ child = "running"
    /\ produced < MaxOut
    /\ produced' = produced + 1
    /\ mbuf' = Append(mbuf, produced + 1)
    /\ UNCHANGED <<pc, raised, spawnVars, hup, exc, sent, winsize, sigs,
                   ncloses, relayVars, interVars>>

\* The child exits (by itself or by a signal) and waits to be reaped.
ChildExit ==
    /\ child = "running"
    /\ child' = "zombie"
    /\ UNCHANGED <<pc, raised, envVars, prog, returncode, master, slave,
                   prepVars, restVars>>

\* The last open slave end is closed.  A descendant of the child that keeps
\* the terminal open delays this step for as long as it lives.
SlaveHangup ==
    /\ child \in {"zombie", "reaped"}
    /\ slave = "closed"
    /\ ~hup
    /\ hup' = TRUE
    /\ UNCHANGED <<pc, raised, spawnVars, mbuf, produced, exc, sent, winsize,
                   sigs, ncloses, relayVars, interVars>>

\* An exceptional condition arises on the master descriptor.
Exceptional ==
    /\ master = "open"
    /\ child # "None"
    /\ ~exc
    /\ exc' = TRUE
    /\ UNCHANGED <<pc, raised, spawnVars, mbuf, produced, hup, sent, winsize,
                   sigs, ncloses, relayVars, interVars>>

\* What select reports for the master: readable, exceptional.
Readable == mbuf # <<>> \/ hup

(***************************************************************************)
(* write(data), set_pty_size(p1, p2, p3, p4), close()                      *)
(***************************************************************************)
\* write() without its try block: the I/O error reaches the caller.
WriteUncaught(ok) ==
    /\ pc = "idle"
    /\ (master = "open" /\ ok) => sent < MaxWrites
    /\ IF master = "open" /\ ok
          THEN raised' = "None" /\ sent' = sent + 1
          ELSE raised' = "write" /\ UNCHANGED sent
    /\ UNCHANGED <<pc, spawnVars, mbuf, produced, hup, exc, winsize, sigs,
                   ncloses, relayVars, interVars>>

\* self.master.write(data); self.master.flush() inside try, and the handler
\* self.master.close().  ok: the write and the flush succeed.
Write(ok) ==
    /\ pc = "idle"
    /\ (master = "open" /\ ok) => sent < MaxWrites
    /\ IF master = "None"
          THEN \* the handler's self.master.close() raises AttributeError
               /\ raised' = "write"
               /\ UNCHANGED <<master, sent>>
          ELSE /\ raised' = "None"
               /\ IF master = "open" /\ ok
                     THEN sent' = sent + 1 /\ UNCHANGED master
                     ELSE master' = "closed" /\ UNCHANGED sent
    /\ UNCHANGED <<pc, envVars, prog, returncode, slave, child, prepVars,
                   mbuf, produced, hup, exc, winsize, sigs, ncloses,
                   relayVars, interVars>>

\* array.array('h', ...) holds signed 16-bit integers.
SHRT_MAX == 32767

FitsShort(n) == 0 - SHRT_MAX - 1 <= n /\ n <= SHRT_MAX

\* The sizes the caller asks for.
Sizes == {<<24, 80, 640, 480>>, <<1, 2, 3, 40000>>}

\* buf = array.array('h', [p1, p2, p3, p4]); fcntl.ioctl(self.master, TIOCSWINSZ, buf)
SetPtySize(p) ==
    /\ pc = "idle"
    /\ IF (\A i \in 1..4 : FitsShort(p[i])) /\ master = "open"
          THEN winsize' = p /\ raised' = "None"
          ELSE raised' = "set_pty_size" /\ UNCHANGED winsize
    /\ UNCHANGED <<pc, spawnVars, mbuf, produced, hup, exc, sent, sigs,
                   ncloses, relayVars, interVars>>

\* Popen.poll(): collects the exit status of a child that has exited.
poll ==
    IF returncode = "None" /\ child = "zombie"
       THEN child' = "reaped" /\ returncode' = "set"
       ELSE UNCHANGED <<child, returncode>>

\* close() returns.
CloseReturn ==
    /\ pc' = IF inter = "running" THEN "in_return" ELSE "idle"
    /\ ncloses' = ncloses + 1

\* close(): if self.prog is not None: self.prog.poll()
CloseEnter ==
    /\ \/ pc = "idle" /\ ncloses < MaxCloses
       \/ pc = "in_close"
    /\ raised' = "None"
    /\ IF prog = "None"
          THEN CloseReturn /\ UNCHANGED <<child, returncode>>
          ELSE pc' = "cl_check" /\ poll /\ UNCHANGED ncloses
    /\ UNCHANGED <<envVars, prog, master, slave, prepVars, mbuf, produced, hup,
                   exc, sent, winsize, sigs, relayVars, interVars>>

\* close() without the test of returncode: terminate() is always called.
CloseCheckAlways ==
    /\ pc = "cl_check"
    /\ pc' = "cl_term"
    /\ UNCHANGED <<raised, spawnVars, ioVars, relayVars, interVars>>

\* close(): if self.prog.returncode is None
CloseCheck ==
    /\ pc = "cl_check"
    /\ IF returncode = "None"
          THEN pc' = "cl_term" /\ UNCHANGED ncloses
          ELSE CloseReturn
    /\ UNCHANGED <<raised, spawnVars, mbuf, produced, hup, exc, sent, winsize,
                   sigs, relayVars, interVars>>

\* close(): self.prog.terminate() inside try; Popen.terminate() sends
\* SIGTERM to the pid, whatever became of the child since the check.
CloseTerminate ==
    /\ pc = "cl_term"
    /\ pc' = "cl_reap"
    /\ sigs' = sigs + 1
    /\ UNCHANGED <<raised, spawnVars, mbuf, produced, hup, exc, sent, winsize,
                   ncloses, relayVars, interVars>>

\* close(): the second self.prog.poll(), inside try.
CloseReap ==
    /\ pc = "cl_reap"
    /\ poll
    /\ CloseReturn
    /\ UNCHANGED <<raised, envVars, prog, master, slave, prepVars, mbuf,
                   produced, hup, exc, sent, winsize, sigs, relayVars, interVars>>

(***************************************************************************)
(* start_read_loop(print_callback, close_callback) and _read_loop          *)
(***************************************************************************)
\* self.master.read(8192)
ReadSize == 8192

Min(a, b) == IF a < b THEN a ELSE b

\* threading.Thread(target=self._read_loop, ...).start()
StartReadLoop ==
    /\ pc = "idle"
    /\ prog = "Popen"
    /\ rpc = "idle"
    /\ inter = "no"
    /\ rpc' = "select"
    /\ not_eof' = TRUE
    /\ raised' = "None"
    /\ UNCHANGED <<pc, spawnVars, ioVars, sel, delivered, closed_cb, interVars>>

\* select.select([self.master], [], [self.master], None) is entered: it asks
\* the file object for its descriptor, which raises ValueError on a closed
\* file; nothing in _read_loop catches that, and the thread ends.
RelaySelectEnter ==
    /\ rpc = "select"
    /\ rpc' = IF master = "closed" THEN "crashed" ELSE "waiting"
    /\ UNCHANGED <<pc, raised, spawnVars, ioVars, not_eof, sel,
                   delivered, closed_cb, interVars>>

\* select returns once the descriptor is readable or exceptional.
RelaySelectReturn ==
    /\ rpc = "waiting"
    /\ Readable \/ exc
    /\ sel' = [r |-> Readable, x |-> exc]
    /\ rpc' = "read"
    /\ UNCHANGED <<pc, raised, spawnVars, ioVars, not_eof,
                   delivered, closed_cb, interVars>>

\* The read of _read_loop as a peek: the bytes delivered stay in the buffer.
RelayReadKeep ==
    /\ rpc = "read"
    /\ rpc' = "check"
    /\ IF ~sel.r
          THEN UNCHANGED <<delivered, not_eof>>
          ELSE IF master = "closed" \/ mbuf = <<>>
                  THEN /\ not_eof' = FALSE
                       /\ UNCHANGED delivered
                  ELSE /\ delivered' = Append(delivered, SubSeq(mbuf, 1, Min(Len(mbuf), ReadSize)))
                       /\ UNCHANGED not_eof
    /\ UNCHANGED <<pc, raised, spawnVars, mbuf, produced, hup, exc, sent, winsize,
                   sigs, ncloses, sel, closed_cb, interVars>>

\* if r: data = self.master.read(8192), None on any error; cb(data) when
\* there is data, not_eof = False otherwise.
RelayRead ==
    /\ rpc = "read"
    /\ rpc' = "check"
    /\ IF ~sel.r
          THEN UNCHANGED <<mbuf, delivered, not_eof>>
          ELSE IF master = "closed" \/ mbuf = <<>>
                  THEN /\ not_eof' = FALSE
                       /\ UNCHANGED <<mbuf, delivered>>
                  ELSE LET n == Min(Len(mbuf), ReadSize)
                       IN  /\ delivered' = Append(delivered, SubSeq(mbuf, 1, n))
                           /\ mbuf' = SubSeq(mbuf, n + 1, Len(mbuf))
                           /\ UNCHANGED not_eof
    /\ UNCHANGED <<pc, raised, spawnVars, produced, hup, exc, sent, winsize,
                   sigs, ncloses, sel, closed_cb, interVars>>

\* if x: not_eof = False; self.prog.poll()
\* if not_eof: not_eof = self.prog.returncode is None
RelayCheck ==
    /\ rpc = "check"
    /\ IF sel.x
          THEN not_eof' = FALSE /\ poll
          ELSE /\ not_eof' = (not_eof /\ returncode = "None")
               /\ UNCHANGED <<child, returncode>>
    /\ rpc' = IF not_eof' THEN "select" ELSE "closing"
    /\ UNCHANGED <<pc, raised, envVars, prog, master, slave, prepVars, ioVars,
                    sel, delivered, closed_cb, interVars>>

\* close_cb()
RelayClose ==
    /\ rpc = "closing"
    /\ closed_cb' = closed_cb + 1
    /\ rpc' = "done"
    /\ UNCHANGED <<pc, raised, spawnVars, ioVars, not_eof, sel,
                   delivered, interVars>>

(***************************************************************************)
(* interact()                                                              *)
(***************************************************************************)
\* os.read(mfd, 1024)
InteractReadSize == 1024

\* A key is typed on the local terminal while interact() runs.
KeyPress ==
    /\ inter = "running"
    /\ stdin = "empty"
    /\ keys < MaxKeys
    /\ keys' = keys + 1
    /\ stdin' = "byte"
    /\ UNCHANGED <<pc, raised, spawnVars, ioVars, relayVars, inter,
                   termattr, old_settings, i_not_eof, i_r, pend, screen>>

\* The local stdin reaches its end.
StdinEof ==
    /\ inter = "running"
    /\ stdin = "empty"
    /\ stdin' = "eof"
    /\ UNCHANGED <<pc, raised, spawnVars, ioVars, relayVars, inter,
                   termattr, old_settings, i_not_eof, i_r, pend, keys, screen>>

\* The local terminal goes away: a read of stdin fails from now on.
StdinError ==
    /\ inter = "running"
    /\ stdin = "empty"
    /\ stdin' = "error"
    /\ UNCHANGED <<pc, raised, spawnVars, ioVars, relayVars, inter,
                   termattr, old_settings, i_not_eof, i_r, pend, keys, screen>>

\* The inner try without its finally: an exception skips the restoration.
InteractFailNoFinally ==
    /\ pend' = "interact"
    /\ pc' = "in_close"

\* An exception is raised inside the inner try: its finally block runs next.
InteractFail ==
    /\ pend' = "interact"
    /\ pc' = "in_restore"

\* mfd = self.master.fileno() ... old_settings = termios.tcgetattr(fd).
\* ok: tcgetattr succeeds (stdin is a terminal).  An exception here is
\* outside the inner try: only the outer finally (self.close()) runs.
InteractEnter ==
    /\ pc = "idle"
    /\ prog = "Popen"
    /\ rpc = "idle"
    /\ inter = "no"
    /\ inter' = "running"
    /\ raised' = "None"
    /\ \E ok \in BOOLEAN :
          IF master = "open" /\ ok
             THEN /\ old_settings' = termattr
                  /\ pc' = "in_raw"
                  /\ UNCHANGED pend
             ELSE /\ pend' = "interact"
                  /\ pc' = "in_close"
                  /\ UNCHANGED old_settings
    /\ UNCHANGED <<spawnVars, ioVars, relayVars, termattr,
                   i_not_eof, i_r, stdin, keys, screen>>

\* tty.setraw(fd); not_eof = True
InteractSetraw ==
    /\ pc = "in_raw"
    /\ \E ok \in BOOLEAN :
          IF ok
             THEN /\ termattr' = "raw"
                  /\ i_not_eof' = TRUE
                  /\ pc' = "in_select"
                  /\ UNCHANGED pend
             ELSE /\ InteractFail
                  /\ UNCHANGED <<termattr, i_not_eof>>
    /\ UNCHANGED <<raised, spawnVars, ioVars, relayVars, inter,
                   old_settings, i_r, stdin, keys, screen>>

\* r, _, x = select.select([sys.stdin, self.master], [], [sys.stdin,
\* self.master], None): returns once either is readable or exceptional
\* (or raises, when a signal interrupts it); x is not looked at afterwards.
InteractSelect ==
    /\ pc = "in_select"
    /\ Readable \/ exc \/ stdin # "empty"
    /\ \E ok \in BOOLEAN :
          IF ok
             THEN /\ i_r' = [master |-> Readable, stdin |-> stdin # "empty",
                                  x |-> exc]
                  /\ pc' = "in_master"
                  /\ UNCHANGED pend
             ELSE /\ InteractFail
                  /\ UNCHANGED i_r
    /\ UNCHANGED <<raised, spawnVars, ioVars, relayVars, inter,
                   termattr, old_settings, i_not_eof, stdin, keys, screen>>

\* if self.master in r: data = os.read(mfd, 1024); os.write(fdo, data) when
\* there is data, not_eof = False when the read is empty.  A read with every
\* slave end closed raises EIO (Linux) or is empty; ok: os.write succeeds.
InteractMaster ==
    /\ pc = "in_master"
    /\ IF ~i_r.master
          THEN /\ pc' = "in_stdin"
               /\ UNCHANGED <<mbuf, screen, i_not_eof, pend>>
          ELSE IF mbuf = <<>>
                  THEN /\ UNCHANGED <<mbuf, screen>>
                       /\ \/ InteractFail /\ UNCHANGED i_not_eof
                          \/ /\ i_not_eof' = FALSE
                             /\ pc' = "in_stdin"
                             /\ UNCHANGED pend
                  ELSE LET n == Min(Len(mbuf), InteractReadSize)
                       IN  /\ mbuf' = SubSeq(mbuf, n + 1, Len(mbuf))
                           /\ UNCHANGED i_not_eof
                           /\ \E ok \in BOOLEAN :
                                 IF ok
                                    THEN /\ screen' = Append(screen, SubSeq(mbuf, 1, n))
                                         /\ pc' = "in_stdin"
                                         /\ UNCHANGED pend
                                    ELSE /\ InteractFail
                                         /\ UNCHANGED screen
    /\ UNCHANGED <<raised, spawnVars, produced, hup, exc, sent, winsize, sigs,
                   ncloses, relayVars, inter, termattr, old_settings, i_r,
                   stdin, keys>>

\* if sys.stdin in r: ch = os.read(fd, 1); os.write(mfd, ch) when there is a
\* byte, not_eof = False when the read is empty.  Neither call is inside a
\* try.  ok: the read and the write succeed.
InteractStdin ==
    /\ pc = "in_stdin"
    /\ IF ~i_r.stdin
          THEN /\ pc' = "in_poll"
               /\ UNCHANGED <<stdin, sent, i_not_eof, pend>>
          ELSE \E ok \in BOOLEAN :
                  IF ~ok \/ stdin = "error"
                     THEN /\ InteractFail
                          /\ UNCHANGED <<stdin, sent, i_not_eof>>
                     ELSE /\ pc' = "in_poll"
                          /\ UNCHANGED pend
                          /\ IF stdin = "byte"
                                THEN /\ stdin' = "empty"
                                     /\ sent' = sent + 1
                                     /\ UNCHANGED i_not_eof
                                ELSE /\ i_not_eof' = FALSE
                                     /\ UNCHANGED <<stdin, sent>>
    /\ UNCHANGED <<raised, spawnVars, mbuf, produced, hup, exc, winsize, sigs,
                   ncloses, relayVars, inter, termattr, old_settings, i_r,
                   keys, screen>>

\* self.prog.poll(); if self.prog.returncode is not None: not_eof = False;
\* sys.stdout.write("\n").  Then the loop test.  ok: the write succeeds.
InteractPoll ==
    /\ pc = "in_poll"
    /\ poll
    /\ IF returncode' = "None"
          THEN /\ pc' = IF i_not_eof THEN "in_select" ELSE "in_restore"
               /\ UNCHANGED <<i_not_eof, screen, pend>>
          ELSE \E ok \in BOOLEAN :
                  /\ i_not_eof' = FALSE
                  /\ IF ok
                        THEN /\ screen' = Append(screen, <<0>>)
                             /\ pc' = "in_restore"
                             /\ UNCHANGED pend
                        ELSE /\ InteractFail
                             /\ UNCHANGED screen
    /\ UNCHANGED <<raised, envVars, prog, master, slave, prepVars, ioVars,
                   relayVars, inter, termattr, old_settings, i_r, stdin, keys>>

\* finally: termios.tcsetattr(fd, termios.TCSADRAIN, old_settings)
InteractRestore ==
    /\ pc = "in_restore"
    /\ termattr' = old_settings
    /\ pc' = "in_close"
    /\ UNCHANGED <<raised, spawnVars, ioVars, relayVars, inter,
                   old_settings, i_not_eof, i_r, pend, stdin, keys, screen>>

\* interact() returns, or re-raises the exception its finally blocks held.
InteractReturn ==
    /\ pc = "in_return"
    /\ pc' = "idle"
    /\ inter' = "done"
    /\ raised' = pend
    /\ pend' = "None"
    /\ i_not_eof' = TRUE
    /\ i_r' = [master |-> FALSE, stdin |-> FALSE, x |-> FALSE]
    /\ UNCHANGED <<spawnVars, ioVars, relayVars, termattr, old_settings,
                   stdin, keys, screen>>

(***************************************************************************)
(* The specifications.                                                     *)
(***************************************************************************)
\* The steps of spawn() and of prepare() in the child, for a target
\* identity drawn from ids.
Spawn(ids) ==
    \/ \E id \in ids : SpawnOpenPty(NoArgv, "None", id)
    \/ SpawnEnv
    \/ SpawnFork
    \/ PrepareResolve
    \/ PrepareChown
    \/ PrepareGroups
    \/ PrepareSetres
    \/ PrepareSetsid
    \/ PrepareCtty
    \/ SpawnExec
    \/ SpawnCloseSlave

\* spawn() without a target identity: prepare() skips its identity steps.
SpawnPlain ==
    \/ SpawnOpenPty(NoArgv, "None", NoIdentity)
    \/ SpawnEnv
    \/ SpawnFork
    \/ PrepareResolve
    \/ PrepareSetsid
    \/ PrepareCtty
    \/ SpawnExec
    \/ SpawnCloseSlave

\* The child and the pty.
Environment ==
    \/ ChildOutput
    \/ ChildExit
    \/ SlaveHangup
    \/ Exceptional

\* The local terminal.
Terminal ==
    \/ KeyPress
    \/ StdinEof
    \/ StdinError

Close ==
    \/ CloseEnter
    \/ CloseCheck
    \/ CloseTerminate
    \/ CloseReap

Caller ==
    \/ \E ok \in BOOLEAN : Write(ok)
    \/ \E p \in Sizes : SetPtySize(p)
    \/ StartReadLoop

Relay ==
    \/ RelaySelectEnter
    \/ RelaySelectReturn
    \/ RelayRead
    \/ RelayCheck
    \/ RelayClose

Interact ==
    \/ InteractEnter
    \/ InteractSetraw
    \/ InteractSelect
    \/ InteractMaster
    \/ InteractStdin
    \/ InteractPoll
    \/ InteractRestore
    \/ InteractReturn

\* The asynchronous relay mode: the caller thread spawns, writes, resizes,
\* closes and starts the relay thread; the relay thread runs beside it.
Next == SpawnPlain \/ Environment \/ Caller \/ Close \/ Relay

Spec == Init /\ [][Next]_vars

\* The relay beside a caller that never writes: the caller spawns, starts
\* the relay thread and may close; the child runs and exits.
NextQuiet == SpawnPlain \/ Environment \/ StartReadLoop \/ Close \/ Relay

\* The relay thread is scheduled as long as it can take a step, and the
\* caller thread finishes a close() it has begun; the child and the terminal
\* owe the session nothing.
FairSpec ==
    /\ Init
    /\ [][NextQuiet]_vars
    /\ WF_vars(Relay)
    /\ WF_vars(CloseCheck \/ CloseTerminate \/ CloseReap)

\* The sizes of the bursts: a byte less and a byte more than one read of the
\* relay takes.
Bursts == {ReadSize - 1, ReadSize + 1}

\* The child writes n more bytes to its terminal at once.
ChildBurst(n) ==
    /\ child = "running"
    /\ produced + n <= MaxStream
    /\ produced' = produced + n
    /\ mbuf' = mbuf \o [i \in 1..n |-> produced + i]
    /\ UNCHANGED <<pc, raised, spawnVars, hup, exc, sent, winsize, sigs,
                   ncloses, relayVars, interVars>>

\* The relay beside a child that writes in bursts larger and smaller than
\* one read, and a caller that writes.
NextStream ==
    \/ SpawnPlain
    \/ \E n \in Bursts : ChildBurst(n)
    \/ ChildExit
    \/ SlaveHangup
    \/ \E ok \in BOOLEAN : Write(ok)
    \/ StartReadLoop
    \/ Relay

SpecStream == Init /\ [][NextStream]_vars

\* spawn() alone, for every target identity.
NextSpawn == Spawn(Identities)

SpecSpawn == Init /\ [][NextSpawn]_vars

\* spawn() alone, for every argv, term and process environment, without a
\* target identity and with one.
NextArgv ==
    \/ \E a \in Argvs, t \in Terms, id \in {NoIdentity, NameIdentity("alice")} :
          SpawnOpenPty(a, t, id)
    \/ SpawnEnv
    \/ SpawnFork
    \/ PrepareResolve
    \/ PrepareChown
    \/ PrepareGroups
    \/ PrepareSetres
    \/ PrepareSetsid
    \/ PrepareCtty
    \/ SpawnExec
    \/ SpawnCloseSlave

SpecArgv == InitArgv /\ [][NextArgv]_vars

\* The synchronous interactive mode (the module's standalone entry): one
\* thread spawns, calls interact() and close().
NextInteract == SpawnPlain \/ Environment \/ Terminal \/ Close \/ Interact

SpecInteract == InitInteract /\ [][NextInteract]_vars

(***************************************************************************)
(* Properties of spawn() and prepare(), under SpecSpawn.                   *)
(***************************************************************************)
\* The positions of the caller inside prepare().
PreparePcs == {"pr_resolve", "pr_chown", "pr_groups", "pr_setres", "pr_setsid",
               "pr_ctty"}

\* The positions in trace of the calls named name.
Calls(name) == {i \in 1..Len(trace) : trace[i].call = name}

Succeeded(name) == \E i \in Calls(name) : trace[i].ok

\* C3: when the target identity resolved to (uid, gid) and both transitions
\* succeeded, setresgid was called before setresuid, the child's real,
\* effective and saved gid are all the resolved gid and its real, effective
\* and saved uid are all the resolved uid.
C3_GidThenUidAllThree ==
    (Succeeded("setresgid") /\ Succeeded("setresuid")) =>
        /\ \A i \in Calls("setresgid"), j \in Calls("setresuid") : i < j
        /\ cred = [ruid |-> userinfo.pw_uid, euid |-> userinfo.pw_uid,
                   suid |-> userinfo.pw_uid, rgid |-> userinfo.pw_gid,
                   egid |-> userinfo.pw_gid, sgid |-> userinfo.pw_gid]

\* A step taken inside prepare() leads to its next step or to the exec.
PrepareGoesOn ==
    pc \in PreparePcs =>
        (pc' \in (PreparePcs \cup {"pr_exec"}) /\ raised' # "spawn")

\* C4: no step of prepare(), whatever fails in it, makes spawn() raise: from
\* every position in prepare() the child goes on to the next step or to the
\* exec of the program.
C4_NoStepFailureEscapes == [][PrepareGoesOn]_vars

\* A step that leaves prepare() leaves setsid and TIOCSCTTY as the last calls.
PrepareEndsWithSessionSteps ==
    (pc \in PreparePcs /\ pc' \notin PreparePcs) =>
        LET n == Len(trace')
        IN  /\ n >= 2
            /\ trace'[n - 1].call = "setsid"
            /\ trace'[n].call = "TIOCSCTTY"

\* C5: every run of prepare() ends with the calls setsid and then TIOCSCTTY,
\* after every identity step, whether or not an identity was given and
\* whichever identity steps failed.
C5_SessionStepsAlwaysRun == [][PrepareEndsWithSessionSteps]_vars

\* C7: once a spawn() that allocated a pty pair has ended, by returning or
\* by a failure of Popen (of the fork, of prepare() or of the exec), the
\* parent holds the slave descriptor no longer.
C7_SlaveClosedAfterSpawn ==
    (pc = "idle" /\ slave # "None" /\ "PATH" \in DOMAIN environ) => slave = "closed"

(***************************************************************************)
(* Properties of the asynchronous relay mode, under Spec and FairSpec.     *)
(***************************************************************************)
RelayRunning == rpc \in {"select", "waiting", "read", "check", "closing"}

RelayStopped == rpc \in {"done", "crashed"}

\* A step of the relay thread: stopped means called back once; no delivery
\* follows the close callback.
CloseCallbackOnceAndLast ==
    /\ RelayStopped' => closed_cb' = 1
    /\ closed_cb > 0 => delivered' = delivered

\* C1: the relay thread stops only after it invoked the close callback
\* exactly once, and it never invokes the delivery callback after the close
\* callback.
C1_CloseCallbackOnceAndLast == [][CloseCallbackOnceAndLast]_vars

\* C2: once the child has exited while the relay loop runs, the loop
\* eventually ends and the close callback has been invoked exactly once,
\* whether or not the master reports anything after the exit.
C2_ChildExitEndsRelay ==
    (child \in {"zombie", "reaped"} /\ RelayRunning)
        ~> (rpc = "done" /\ closed_cb = 1)

\* The relay thread reads from the master descriptor in this step.
MasterRead == rpc = "read" /\ rpc' = "check" /\ sel.r /\ master = "open"

\* A close() that sent the termination signal to the child has completed.
CloseCompleted == sigs > 0 /\ pc \notin {"cl_check", "cl_term", "cl_reap"}

\* A step taken after a completed close() does no I/O on the master.
NoMasterIoAfterClose == CloseCompleted => (~MasterRead /\ sent' = sent)

\* C6: after a close() of the spawned session has completed, the relay
\* thread reads the master no more and no write() puts bytes into it.
C6_NoMasterIoAfterClose == [][NoMasterIoAfterClose]_vars

\* A step of write(): no exception, the master closed on failure and kept so.
WriteNeverRaises ==
    /\ prog = "Popen" => raised' # "write"
    /\ (Write(FALSE) /\ master # "None") => master' = "closed"
    /\ master = "closed" => (master' = "closed" /\ sent' = sent)

\* C10: on a spawned session write() never raises; a write whose I/O fails
\* closes the master, and from then on the master stays closed and no
\* write() puts bytes into it.
C10_WriteNeverRaises == [][WriteNeverRaises]_vars

\* A write failed on a spawned session, closed the master and returned.
C10_Witness ==
    prog = "Popen" /\ master = "closed" /\ raised = "None" /\ sent > 0

(***************************************************************************)
(* Properties of the single-threaded use, under SpecInteract.              *)
(***************************************************************************)
ClosePcs == {"cl_check", "cl_term", "cl_reap"}

\* interact() has reached the outer finally block or has ended.
InteractLeaving ==
    \/ inter = "running" /\ pc \in {"in_close", "in_return"} \cup ClosePcs
    \/ inter = "done"

\* C8: on every way out of interact() taken after tcgetattr, the local
\* terminal has the captured attributes again before self.close() is
\* invoked and when interact() returns or raises.
C8_TerminalRestored ==
    (old_settings # "unset" /\ InteractLeaving) => termattr = old_settings

\* interact() put a terminal that was in cbreak mode into raw mode, copied
\* output, ended with an exception and left the terminal in cbreak mode.
C8_Witness ==
    /\ inter = "done"
    /\ raised = "interact"
    /\ screen # <<>>
    /\ old_settings = "cbreak"
    /\ termattr = "cbreak"

\* A step of close(): the signal goes to an uncollected child, the return is
\* clean.
CloseIdempotent ==
    /\ sigs' > sigs => (child # "reaped" /\ returncode = "None")
    /\ ncloses' > ncloses => raised' = "None"

\* C9: close() sends the termination signal only to a child whose exit
\* status has not been collected, and every close() returns without error,
\* however many times it is called and whatever the state of the child.
C9_CloseIdempotent == [][CloseIdempotent]_vars

\* Two close() calls: the first signalled and reaped the child, the second
\* sent nothing.
C9_Witness ==
    inter = "no" /\ ncloses = 2 /\ child = "reaped" /\ sigs = 1
(***************************************************************************)
(* Properties of spawn()'s argument vector and environment, under SpecArgv.*)
(***************************************************************************)
\* The pairs (name, PATH entry) that name an existing file.
ShellsFound(e) ==
    {m \in (1..Len(ShellNames)) \X (1..Len(e.PATH)) :
        Join(e.PATH[m[2]], ShellNames[m[1]]) \in Files}

\* The program a spawn() without argv is to run in the environment e.
DefaultProgram(e) ==
    IF "SHELL" \in DOMAIN e
       THEN e.SHELL
       ELSE IF "PATH" \in DOMAIN e /\ ShellsFound(e) # {}
               THEN LET m == CHOOSE m \in ShellsFound(e) :
                                 \A n \in ShellsFound(e) :
                                     m[1] < n[1] \/ (m[1] = n[1] /\ m[2] <= n[2])
                    IN  Join(e.PATH[m[2]], ShellNames[m[1]])
               ELSE Join(Bin, "sh")

\* A spawn() without argv goes on to Popen with the default program.
DefaultShellLaunched ==
    ((~argv.given \/ argv.list = <<>>) /\ pc = "sp_env") =>
        (args[1] = DefaultProgram(environ) /\ pc' = "sp_popen")

\* C14: a spawn() called with no argv or an empty one runs SHELL if it is
\* set, else the first file found going through the shell names and, for
\* each, the PATH entries, else /bin/sh (no match, or no PATH), and in each
\* case goes on to launch the child with that program.
C14_DefaultShellLaunched == [][DefaultShellLaunched]_vars

\* C15: the child of a spawn() given a non-empty argv runs exactly that
\* argv, but with --noprofile --norc put right after the first element when
\* the basename of the first element is bash, and for no other basename.
C15_ArgvKeptBashFlagged ==
    (argv.given /\ argv.list # <<>> /\ child = "running") =>
        LET l == argv.list
        IN  IF Basename(l[1]) = "bash"
               THEN /\ Len(args) = Len(l) + 2
                    /\ args[1] = l[1]
                    /\ args[2] = <<"--noprofile">>
                    /\ args[3] = <<"--norc">>
                    /\ \A k \in 2..Len(l) : args[k + 2] = l[k]
               ELSE args = l

\* The child runs /usr/bin/bash --noprofile --norc -c id.
C15_Witness ==
    /\ child = "running"
    /\ argv = ListArgv(<<Join(UsrBin, "bash"), <<"-c">>, <<"id">>>>)
    /\ Len(args) = 5
    /\ args[5] = <<"id">>

\* A step that leaves os.environ as it was.
EnvironKept == environ' = environ

\* C16: no step of spawn() changes the process-wide environment, so what a
\* spawn() sets for its child (TERM, PATH, HISTFILE, USER, HOME, LOGNAME) is
\* in that child's mapping only and a later spawn() starts from the same
\* environment.
C16_EnvironUnchanged == [][EnvironKept]_vars
(***************************************************************************)
(* Properties of the two loops, under SpecInteract and Spec.               *)
(***************************************************************************)
\* A read that fails ends the loop as an empty read does.  In _read_loop the
\* read fails on a closed master or with every slave end closed; in
\* interact() the read of the master fails with every slave end closed and
\* the read of stdin fails when the terminal is gone.
ReadFailureEndsStream ==
    /\ (rpc = "read" /\ rpc' # rpc /\ sel.r /\ (master = "closed" \/ mbuf = <<>>)) =>
           (rpc' = "check" /\ not_eof' = FALSE)
    /\ (pc = "in_master" /\ pc' # pc /\ i_r.master /\ mbuf = <<>>) =>
           (pc' = "in_stdin" /\ i_not_eof' = FALSE /\ pend' = "None")
    /\ (pc = "in_stdin" /\ pc' # pc /\ i_r.stdin /\ stdin = "error") =>
           (pc' = "in_poll" /\ i_not_eof' = FALSE /\ pend' = "None")

\* C11: in the relay loop and in interact(), a failing read of the master
\* or of stdin is an end of stream: the loop ends as on an empty read and
\* no exception leaves it.
C11_ReadFailureEndsStream == [][ReadFailureEndsStream]_vars

\* An iteration in which select reported an exceptional condition ends the
\* loop.
ExceptionalEndsLoop ==
    /\ (rpc = "check" /\ rpc' # rpc /\ sel.x) => rpc' = "closing"
    /\ (pc = "in_poll" /\ i_r.x) => pc' # "in_select"

\* C18: in the relay loop and in interact(), an exceptional condition that
\* select reports ends the loop in that iteration; no iteration goes back
\* to select after one without having moved data or ended the loop.
C18_ExceptionalEndsLoop == [][ExceptionalEndsLoop]_vars
(***************************************************************************)
(* Further properties of the asynchronous relay mode, under Spec.          *)
(***************************************************************************)
\* The largest value of a field of struct winsize (an unsigned short).
USHRT_MAX == 2 * SHRT_MAX + 1

\* set_pty_size(p) on an open master, for p within the fields' range, sets
\* the window size to p and does not raise.
PtySizeSet ==
    \A p \in Sizes :
        ( /\ \A i \in 1..4 : p[i] \in 0..USHRT_MAX
          /\ prog = "Popen"
          /\ master = "open"
          /\ SetPtySize(p) ) =>
        (raised' = "None" /\ winsize' = p)

\* C12: on a spawned session with an open master, set_pty_size(rows, cols,
\* x_pixels, y_pixels) raises for no four integers in 0..65535 and leaves
\* the window size equal to them, in that order.
C12_PtySizeSet == [][PtySizeSet]_vars

\* An iteration of _read_loop that read data and saw no exceptional
\* condition ends the loop when the child has exited by then.
RelayRechecksChild ==
    ( /\ rpc = "check"
      /\ rpc' # rpc
      /\ ~sel.x
      /\ not_eof
      /\ child \in {"zombie", "reaped"} ) =>
    rpc' = "closing"

\* C17: a relay iteration that did not reach the end of the stream checks
\* the child's current exit status: if the child has exited by the end of
\* the iteration the loop ends and select is not entered again, whether or
\* not anything else has collected the status.
C17_RelayRechecksChild == [][RelayRechecksChild]_vars

\* The signal of close() goes to a child nobody has reaped yet.
SignalOnlyUncollected == (pc = "cl_term" /\ sigs' > sigs) => child # "reaped"

\* C20: with close() on the caller thread and the relay thread polling the
\* child, in every interleaving the termination signal is never sent to a
\* child whose exit status the other thread has already collected.
C20_SignalOnlyUncollected == [][SignalOnlyUncollected]_vars
(***************************************************************************)
(* A further property of prepare(), under SpecSpawn.                       *)
(***************************************************************************)
\* The positions of prepare() after its terminal ownership step.
AfterChown == {"pr_groups", "pr_setres", "pr_setsid", "pr_ctty", "pr_exec"}

\* C19: when the target identity resolved, the terminal device belongs to
\* the resolved uid once prepare() is past its ownership step, and the
\* change was made before the gid/uid transition.
C19_TerminalChowned ==
    (userinfo # NoUser /\ pc \in AfterChown) =>
        /\ proc.ttyowner = userinfo.pw_uid
        /\ Calls("chown") # {}
        /\ \A i \in Calls("chown"),
              j \in Calls("setresgid") \cup Calls("setresuid") : i < j
(***************************************************************************)
(* The stream the relay delivers, under SpecStream.  The k-th byte the     *)
(* child writes is the number k.                                           *)
(***************************************************************************)
\* The concatenation of the chunks from the k-th on.
RECURSIVE Flat(_, _)
Flat(chunks, k) ==
    IF k > Len(chunks) THEN <<>> ELSE chunks[k] \o Flat(chunks, k + 1)

\* C13: the chunks passed to the delivery callback, concatenated in the
\* order of the calls, are a prefix of the bytes the child wrote: no byte
\* twice, none out of order; every chunk is non-empty and at most 8192 bytes.
C13_DeliveredIsPrefix ==
    /\ \A k \in 1..Len(delivered) : Len(delivered[k]) \in 1..ReadSize
    /\ LET all == Flat(delivered, 1)
       IN  /\ Len(all) <= produced
           /\ \A i \in 1..Len(all) : all[i] = i

\* A burst of 8193 bytes was delivered as a chunk of 8192 bytes and a chunk
\* of one byte.
C13_Witness ==
    /\ Len(delivered) >= 2
    /\ Len(delivered[1]) = ReadSize
    /\ Len(delivered[2]) = 1
====
